---- MODULE Spec2Model ----
(***************************************************************************)
(* A model of PyMturkGspread (src/PyMturkGspread/mturk.py): the Survey     *)
(* class and its GoogleForms subclass.                                     *)
(*                                                                         *)
(* Every Python str is a sequence of symbols.  A symbol is a TLA+ string   *)
(* standing for a run of characters that the program never looks inside:   *)
(* an id ("R1"), an operator token ("=="), a blank (" "), a letter ("a").  *)
(* Concatenation is \o, equality is case-sensitive equality of sequences,  *)
(* "x in s" is the sub-sequence test and s.split(sep) cuts at every        *)
(* occurrence of the sequence sep.                                         *)
(***************************************************************************)
EXTENDS Integers, Sequences, FiniteSets, TLC

(***************************************************************************)
(* Generic helpers on sequences.                                           *)
(***************************************************************************)
Range(s) == {s[i] : i \in 1..Len(s)}

RECURSIVE Flatten(_)
Flatten(ss) == IF ss = <<>> THEN <<>> ELSE Head(ss) \o Flatten(Tail(ss))

RECURSIVE SelectSeqBy(_, _)
\* the entries of s at the positions whose keep[i] is TRUE, in order
SelectSeqBy(s, keep) ==
    IF s = <<>> THEN <<>>
    ELSE (IF keep[1] THEN <<s[1]>> ELSE <<>>)
         \o SelectSeqBy(Tail(s), [i \in 1..(Len(s) - 1) |-> keep[i + 1]])

\* all sequences over S of length at most n
SeqsUpTo(S, n) == UNION {[1..k -> S] : k \in 0..n}

\* the sequences over S without a repeated entry
Distinct(s) == \A i, j \in 1..Len(s) : i # j => s[i] # s[j]

\* the permutations of the set S, as sequences
Perms(S) == {s \in [1..Cardinality(S) -> S] : Distinct(s)}

(***************************************************************************)
(* The data the program handles.                                           *)
(***************************************************************************)
Str(sym) == <<sym>>

T1 == Str("T1")
T2 == Str("T2")
HITs == {T1, T2}

R1 == Str("R1")
R2 == Str("R2")
Workers == {R1, R2}

Q1 == Str("Q1")
Q2 == Str("Q2")

\* self.questions, the screener questions given to the constructor
questions == <<Q1, Q2>>

\* the texts a respondent can give as an answer
Values == {Str("a"), Str("b")}

\* the key columns of every table the program builds
KeyColumns == {Str("HITID"), Str("WorkerID"), Str("AssignmentID")}

\* the bounds of the model: the assignments the marketplace holds in all,
\* the rows of the sheet below its header, the conditions of one call of
\* add_conditions, the users of one call of send_reminder_emails
MaxAssign == 2
MaxSurvey == 3
MaxSheet == 2
MaxConds == 2
MaxUsers == 2
\* the pages the marketplace serves for one task, the empty ones counted
MaxPages == 3

\* the id the marketplace gives the k-th assignment submitted to a task
AssignmentIdOf(hit, k) == <<"A">> \o hit \o [i \in 1..k |-> "i"]

(***************************************************************************)
(* An assignment as boto returns it: WorkerId, AssignmentId and            *)
(* answers[0], the list of QuestionFormAnswer (qid, fields).  A form       *)
(* holds one answer per question identifier.                               *)
(***************************************************************************)
AnswerLists ==
    {al \in SeqsUpTo([qid : Range(questions), fields0 : Values], Len(questions)) :
        /\ Distinct([i \in 1..Len(al) |-> al[i].qid])
        /\ \A i, j \in 1..Len(al) : i < j =>
               \E m, n \in 1..Len(questions) :
                   m < n /\ questions[m] = al[i].qid /\ questions[n] = al[j].qid}

\* the assignments of every page of a task, in order
AssignmentsOf(mkt, hit) == Flatten(mkt[hit])

NumAssignments(mkt) == Len(AssignmentsOf(mkt, T1)) + Len(AssignmentsOf(mkt, T2))

(***************************************************************************)
(* Survey.get_mturk_results                                                *)
(***************************************************************************)
\* page_size=100 in the call of get_assignments
PageSize == 100

\* MTurkConnection.get_assignments: the page_number-th page of the task's
\* assignments, of at most page_size entries; the empty list past the last
GetAssignments(mkt, hit, page_size, page_number) ==
    IF page_number \in 1..Len(mkt[hit])
    THEN LET page == mkt[hit][page_number]
         IN  IF Len(page) <= page_size THEN page ELSE SubSeq(page, 1, page_size)
    ELSE <<>>

RECURSIVE FetchPages(_, _, _)
\* the while-loop of helper, from page i on
FetchPages(mkt, hit, i) ==
    LET assignments_subset == GetAssignments(mkt, hit, PageSize, i)
    IN  IF Len(assignments_subset) > 0
        THEN assignments_subset \o FetchPages(mkt, hit, i + 1)
        ELSE <<>>

\* the rows helper appends for one assignment: one per answer to `question`
RowsOfAssignment(hit, assignment, question) ==
    LET question_form_answers == assignment.answers
    IN  Flatten([k \in 1..Len(question_form_answers) |->
            IF question_form_answers[k].qid = question
            THEN <<[HITID |-> hit,
                    WorkerID |-> assignment.WorkerId,
                    AssignmentID |-> assignment.AssignmentId,
                    ans |-> (question :> question_form_answers[k].fields0)]>>
            ELSE <<>>])

\* helper(hit_id, question): the table of one question; a table is the
\* sequence of its rows, and its index is the row's position less one
helper(mkt, hit_id, question) ==
    LET assignments == FetchPages(mkt, hit_id, 1)
    IN  Flatten([k \in 1..Len(assignments) |->
            RowsOfAssignment(hit_id, assignments[k], question)])

SameKey(l, r) ==
    /\ l.HITID = r.HITID
    /\ l.WorkerID = r.WorkerID
    /\ l.AssignmentID = r.AssignmentID

\* a merge that keeps the left rows without a match (how='left')
MergeLeft(left, right) ==
    Flatten([i \in 1..Len(left) |->
        IF \E j \in 1..Len(right) : SameKey(left[i], right[j])
        THEN Flatten([j \in 1..Len(right) |->
                 IF SameKey(left[i], right[j])
                 THEN <<[left[i] EXCEPT !.ans = left[i].ans @@ right[j].ans]>>
                 ELSE <<>>])
        ELSE <<left[i]>>])

\* pd.merge(left, right, on=[HITID, WorkerID, AssignmentID]): the inner join,
\* in the order of the left rows
Merge(left, right) ==
    Flatten([i \in 1..Len(left) |->
        Flatten([j \in 1..Len(right) |->
            IF SameKey(left[i], right[j])
            THEN <<[left[i] EXCEPT !.ans = left[i].ans @@ right[j].ans]>>
            ELSE <<>>])])

RECURSIVE MergeAll(_, _)
MergeAll(mergedPanda, rest) ==
    IF rest = <<>> THEN mergedPanda
    ELSE MergeAll(Merge(mergedPanda, Head(rest)), Tail(rest))

\* the table get_mturk_results returns for a non-empty questionList
get_mturk_results(mkt, hit_id, questionList) ==
    LET allPandas == [k \in 1..Len(questionList) |-> helper(mkt, hit_id, questionList[k])]
    IN  MergeAll(allPandas[1], Tail(allPandas))

(***************************************************************************)
(* Condition strings: Survey.add_conditions and the parsing of             *)
(* Survey.filter_mturk_results                                             *)
(***************************************************************************)
SP == " "

\* the keys of self.cond_mapping, in the order the dict literal lists them
OpKeys == <<Str("=="), Str("!="), Str(">="), Str("<="),
            Str("contains"), Str("does not contain")>>

\* Python's `sub in s` for two strings
Contains(s, sub) ==
    \E i \in 1..(Len(s) - Len(sub) + 1) : SubSeq(s, i, i + Len(sub) - 1) = sub

\* the operator keys found in a condition string, in dict order
OpsFound(cond) == SelectSeq(OpKeys, LAMBDA f : Contains(cond, f))

\* the place of the leftmost occurrence of sep in s, or 0
Find(s, sep) ==
    IF Contains(s, sep)
    THEN CHOOSE i \in 1..(Len(s) - Len(sep) + 1) :
             /\ SubSeq(s, i, i + Len(sep) - 1) = sep
             /\ \A j \in 1..(i - 1) : SubSeq(s, j, j + Len(sep) - 1) # sep
    ELSE 0

RECURSIVE Split(_, _)
\* Python's s.split(sep): the pieces between the occurrences of sep
Split(s, sep) ==
    LET i == Find(s, sep)
    IN  IF i = 0 THEN <<s>>
        ELSE <<SubSeq(s, 1, i - 1)>> \o Split(SubSeq(s, i + Len(sep), Len(s)), sep)

\* the symbols in the order of the characters they stand for
SymbolOrder == <<" ", "!=", "<=", "==", ">=", "A", "AssignmentID", "HITID",
                 "Q1", "Q2", "Q3", "R1", "R2", "R3", "T1", "T2", "WorkerID",
                 "a", "b", "contains", "does not contain", "i", "r1">>

Rank(sym) == CHOOSE i \in 1..Len(SymbolOrder) : SymbolOrder[i] = sym

RECURSIVE StrLe(_, _)
\* Python's s <= t for two strings
StrLe(s, t) ==
    IF s = <<>> THEN TRUE
    ELSE IF t = <<>> THEN FALSE
    ELSE IF Head(s) = Head(t) THEN StrLe(Tail(s), Tail(t))
    ELSE Rank(Head(s)) < Rank(Head(t))

\* self.cond_mapping[op], on one cell x[y] and the text z
CondHolds(op, cell, z) ==
    CASE op = Str("==") -> cell = z
      [] op = Str("!=") -> cell # z
      [] op = Str(">=") -> StrLe(z, cell)
      [] op = Str("<=") -> StrLe(cell, z)
      [] op = Str("contains") -> Contains(cell, z)
      [] op = Str("does not contain") -> ~Contains(cell, z)

\* the columns of the table built from self.questions
Columns == KeyColumns \cup Range(questions)

\* x[y]: the cell of a row in column y
Cell(row, y) ==
    CASE y = Str("HITID") -> row.HITID
      [] y = Str("WorkerID") -> row.WorkerID
      [] y = Str("AssignmentID") -> row.AssignmentID
      [] OTHER -> row.ans[y]

\* pd.concat of the per-task tables: the rows in order, each keeping the
\* index it has in its own table
Concat(tables) ==
    Flatten([t \in 1..Len(tables) |->
        [i \in 1..Len(tables[t]) |->
            [idx |-> i - 1,
             HITID |-> tables[t][i].HITID,
             WorkerID |-> tables[t][i].WorkerID,
             AssignmentID |-> tables[t][i].AssignmentID,
             ans |-> tables[t][i].ans]]])

\* valid_results of filter_mturk_results
ValidResults(mkt, hitlist) ==
    Concat([k \in 1..Len(hitlist) |-> get_mturk_results(mkt, hitlist[k], questions)])

\* one pass of the loop over self.conditions with op the key taken from
\* cond_mapping: the filtered table, or the exception raised
ApplyCond(valid_results, cond, op) ==
    LET var == Split(cond, <<SP>> \o op \o <<SP>>)
    IN  IF Len(var) < 2 THEN [raised |-> "IndexError", table |-> <<>>]
        ELSE IF var[1] \notin Columns THEN [raised |-> "KeyError", table |-> <<>>]
        ELSE [raised |-> "",
              table |-> SelectSeq(valid_results,
                            LAMBDA row : CondHolds(op, Cell(row, var[1]), var[2]))]

\* x[x.index.isin(y.index)]
IndexIsin(x, y) ==
    SelectSeq(x, LAMBDA row : row.idx \in {y[j].idx : j \in 1..Len(y)})

RECURSIVE recurse(_)
recurse(List) ==
    IF Len(List) = 1 THEN List[1]
    ELSE recurse(<<IndexIsin(List[1], List[2])>> \o SubSeq(List, 3, Len(List)))

\* op = [x for x in self.cond_mapping if x in cond][0], per condition, on an
\* interpreter whose dict iterates in insertion order (CPython 3.6 and later)
FirstOps(conds) == [k \in 1..Len(conds) |-> Head(OpsFound(conds[k]))]

\* the same on any interpreter the package declares (3.4 to 3.6): before 3.6
\* a dict of str keys iterates in an order that changes from run to run, so
\* the key taken is any of the keys found
OpChoices(conds) ==
    {ops \in [1..Len(conds) -> Range(OpKeys)] :
        \A k \in 1..Len(conds) : ops[k] \in Range(OpsFound(conds[k]))}

\* self.filtered_mturk_resp as filter_mturk_results computes it from
\* valid_results and the registered conditions, or the exception raised
FilterTable(valid_results, conds, ops) ==
    IF Len(conds) > 0
    THEN LET results == [k \in 1..Len(conds) |-> ApplyCond(valid_results, conds[k], ops[k])]
             bad == {k \in 1..Len(conds) : results[k].raised # ""}
         IN  IF bad # {}
             THEN [raised |-> results[CHOOSE k \in bad : \A m \in bad : k <= m].raised,
                   table |-> <<>>]
             ELSE [raised |-> "",
                   table |-> recurse([k \in 1..Len(conds) |-> results[k].table])]
    ELSE [raised |-> "", table |-> valid_results]

\* [str(i) for i in list(table[column])]
ColumnList(table, column) == [k \in 1..Len(table) |-> Cell(table[k], column)]

(***************************************************************************)
(* The state: the marketplace and the spreadsheet the program reads, the   *)
(* attributes of the one GoogleForms object, and what its last call did.   *)
(***************************************************************************)
VARIABLES
    market,               \* per task, the pages of assignments MTurk holds
    sheet,                \* the rows of column srvy_q_text of the sheet, header first
    HITlist,              \* self.HITlist
    conditions,           \* self.conditions
    attrs,                \* the names of the attributes that have been assigned
    mturk_resp,           \* self.mturk_resp
    filtered_mturk_resp,  \* self.filtered_mturk_resp
    allAssignments,       \* self.allAssignments
    allUsers,             \* self.allUsers
    filteredAssignments,  \* self.filteredAssignments
    filteredUsers,        \* self.filteredUsers
    completeList,         \* self.completeList
    completeActual,       \* self.completeActual
    remaining,            \* self.remaining
    last,                 \* the last call: its name, arguments, result and effects
    paging                \* the locals of the page loop of helper, and the pages it was served

vars == <<market, sheet, HITlist, conditions, attrs, mturk_resp,
          filtered_mturk_resp, allAssignments, allUsers, filteredAssignments,
          filteredUsers, completeList, completeActual, remaining, last, paging>>

env == <<market, sheet>>

\* the attributes of the object, as one record
Self ==
    [HITlist |-> HITlist, conditions |-> conditions, attrs |-> attrs,
     mturk_resp |-> mturk_resp, filtered_mturk_resp |-> filtered_mturk_resp,
     allAssignments |-> allAssignments, allUsers |-> allUsers,
     filteredAssignments |-> filteredAssignments, filteredUsers |-> filteredUsers,
     completeList |-> completeList, completeActual |-> completeActual,
     remaining |-> remaining]

\* the object takes the attribute values of the record o
Store(o) ==
    /\ HITlist' = o.HITlist
    /\ conditions' = o.conditions
    /\ attrs' = o.attrs
    /\ mturk_resp' = o.mturk_resp
    /\ filtered_mturk_resp' = o.filtered_mturk_resp
    /\ allAssignments' = o.allAssignments
    /\ allUsers' = o.allUsers
    /\ filteredAssignments' = o.filteredAssignments
    /\ filteredUsers' = o.filteredUsers
    /\ completeList' = o.completeList
    /\ completeActual' = o.completeActual
    /\ remaining' = o.remaining

\* the object right after GoogleForms.__init__: only the constructor's
\* arguments are attributes
NewObject(hitlist) ==
    [HITlist |-> hitlist, conditions |-> <<>>, attrs |-> {},
     mturk_resp |-> <<>>, filtered_mturk_resp |-> <<>>,
     allAssignments |-> <<>>, allUsers |-> <<>>,
     filteredAssignments |-> <<>>, filteredUsers |-> <<>>,
     completeList |-> <<>>, completeActual |-> <<>>, remaining |-> <<>>]

\* what a call left behind: op, its arguments, the value returned, the
\* exception raised ("" when none), the notify_workers and grant_bonus calls
\* made, and the budget printed
Call(op, args, ret, raised) ==
    [op |-> op, args |-> args, ret |-> ret, raised |-> raised,
     notified |-> <<>>, granted |-> <<>>, printed |-> <<>>]

NoCall == Call("", <<>>, <<>>, "")

\* no page loop has run: pc is the place of the loop ("" none, "request" at
\* the head of the while, "done" after the break), hit_id, i and assignments
\* are the locals of helper, requested the page numbers asked of
\* get_assignments so far and returned the pages it answered
NoLoop ==
    [pc |-> "", hit_id |-> <<>>, i |-> 0, assignments |-> <<>>,
     requested |-> <<>>, returned |-> <<>>]

(***************************************************************************)
(* Survey.add_conditions                                                   *)
(***************************************************************************)
\* a check that wants exactly one key of cond_mapping in the string
PermittedOnce(cond) == Len(OpsFound(cond)) = 1

\* the check of the for-loop: some key of cond_mapping is in the string
Permitted(cond) == \E k \in 1..Len(OpKeys) : Contains(cond, OpKeys[k])

add_conditions(o, conds) ==
    LET o1 == [o EXCEPT !.attrs = @ \cup {"cond_mapping"}]
    IN  IF \E k \in 1..Len(conds) : ~Permitted(conds[k])
        THEN [self |-> o1, raised |-> "ValueError"]
        ELSE [self |-> [o1 EXCEPT !.conditions = conds, !.attrs = @ \cup {"conditions"}],
              raised |-> ""]

(***************************************************************************)
(* Survey.filter_mturk_results                                             *)
(***************************************************************************)
filter_mturk_results(o, mkt, ops) ==
    LET valid_results == ValidResults(mkt, o.HITlist)
        \* get_mturk_results assigns self.mturk_resp at each call
        o1 == [o EXCEPT !.mturk_resp =
                            get_mturk_results(mkt, o.HITlist[Len(o.HITlist)], questions),
                        !.attrs = @ \cup {"mturk_resp"}]
    IN  IF "conditions" \notin o.attrs
        THEN [self |-> o1, raised |-> "AttributeError"]
        ELSE LET ft == FilterTable(valid_results, o.conditions, ops)
             IN  IF ft.raised # ""
                 THEN [self |-> o1, raised |-> ft.raised]
                 ELSE [self |->
                          [o1 EXCEPT
                              !.filtered_mturk_resp = ft.table,
                              !.allAssignments = ColumnList(valid_results, Str("AssignmentID")),
                              !.allUsers = ColumnList(valid_results, Str("WorkerID")),
                              !.filteredAssignments = ColumnList(ft.table, Str("AssignmentID")),
                              !.filteredUsers = ColumnList(ft.table, Str("WorkerID")),
                              !.attrs = @ \cup {"filtered_mturk_resp", "allAssignments",
                                               "allUsers", "filteredAssignments",
                                               "filteredUsers"}],
                       raised |-> ""]

\* the keys the filter may take for the conditions of o
OpChoicesOf(o) == OpChoices(IF "conditions" \in o.attrs THEN o.conditions ELSE <<>>)

(***************************************************************************)
(* GoogleForms.get_results                                                 *)
(***************************************************************************)
\* self.srvy_q_text, the header of the sheet column holding the worker ids
srvy_q_text == Str("Enter your code")

\* every entry of completeList, qualified or not
CompletedSetOfList(users, list) == Range(list)

\* the members of filteredUsers that are in completeList
CompletedSet(users, list) == {u \in Range(users) : u \in Range(list)}

\* every qualified user, completed or not
RemainingAll(users, done) == users

\* the members of filteredUsers that are not in completeActual
Remaining(users, done) == SelectSeq(users, LAMBDA user : user \notin Range(done))

\* get_results on the rows `values` of the sheet; `order` is the order in
\* which list(set(...)) lists the completed users
get_results(o, values, order) ==
    IF values = <<>>
    THEN [self |-> o, raised |-> "", ret |-> "None"]
    ELSE IF values[1] # srvy_q_text
    THEN [self |-> o, raised |-> "KeyError", ret |-> "None"]
    ELSE LET o1 == [o EXCEPT !.completeList = Tail(values),
                             !.attrs = @ \cup {"completeList"}]
         IN  IF "filteredUsers" \notin o.attrs
             THEN [self |-> o1, raised |-> "AttributeError", ret |-> "None"]
             ELSE [self |->
                      [o1 EXCEPT
                          !.completeActual = order,
                          !.remaining = Remaining(o.filteredUsers, order),
                          !.attrs = @ \cup {"completeActual", "remaining"}],
                   raised |-> "", ret |-> "results"]

\* the orders list(set(...)) can give the completed users of o
OrdersOf(o, values) ==
    IF values = <<>> \/ "filteredUsers" \notin o.attrs THEN {<<>>}
    ELSE Perms(CompletedSet(o.filteredUsers, Tail(values)))

(***************************************************************************)
(* Survey.send_reminder_emails and the two mailers                         *)
(***************************************************************************)
srvy_link == Str("http://form")
from_name == Str("Sender")

FirstSubject == Str("Please take second part of Survey for bonus")
FirstMessage ==
    Str("Hello, ... Please go to ") \o srvy_link
        \o Str(" to complete ... Sincerely, ") \o from_name
        \o Str(" ### Your reward code is: ")

SecondSubject == Str("[Reminder] Bonus for participating in second part of Survey")
SecondMessage ==
    Str("Hello, ... As a reminder, please go to ") \o srvy_link
        \o Str(" to complete ... Sincerely, ") \o from_name
        \o Str(" ### Your reward code is: ")

\* what notify_workers returns when it does not raise
Ack == Str("ack")

\* the calls of notify_workers: one per entry of users, in order, each with
\* whether it raised
NotifyCalls(users, subj, msg, fails) ==
    [k \in 1..Len(users) |->
        [user |-> users[k], subj |-> subj, body |-> msg \o users[k],
         raised |-> k \in fails]]

\* a batch that ends at the first call of notify_workers that raises
send_reminder_emails_until_failure(users, subj, msg, fails) ==
    [k \in {j \in 1..Len(users) : \A i \in 1..j : i \notin fails} |->
        [sent |-> TRUE, user |-> users[k], notify |-> Ack]]

\* the list send_reminder_emails returns when notify_workers raises at the
\* places in fails: [user, notify], or the text of the except branch
send_reminder_emails(users, subj, msg, fails) ==
    [k \in 1..Len(users) |->
        IF k \in fails
        THEN [sent |-> FALSE, text |-> Str("Could not email user: ") \o users[k]]
        ELSE [sent |-> TRUE, user |-> users[k], notify |-> Ack]]

(***************************************************************************)
(* Python floats.  A float is mant * 2^exp, mant being the sequence of the *)
(* DoubleBits bits of the significand, lowest first (0.0 has the empty     *)
(* mant).  Exact products and quotients are numbers of any size, kept as   *)
(* the sequence of their digits in base 2^13, lowest first.                *)
(***************************************************************************)
\* the bits of the significand of an IEEE 754 double
DoubleBits == 53

LimbBits == 13
Base == 2 ^ LimbBits

RECURSIVE Limbs(_)
Limbs(n) == IF n = 0 THEN <<>> ELSE <<n % Base>> \o Limbs(n \div Base)

RECURSIVE MulSmall(_, _, _)
\* x * n + carry for machine-size n and carry
MulSmall(x, n, carry) ==
    IF x = <<>> THEN Limbs(carry)
    ELSE <<(Head(x) * n + carry) % Base>>
         \o MulSmall(Tail(x), n, (Head(x) * n + carry) \div Base)

RECURSIVE DivSmall(_, _)
\* quotient and remainder of x by a machine-size d
DivSmall(x, d) ==
    IF x = <<>> THEN [q |-> <<>>, r |-> 0]
    ELSE LET hi == DivSmall(Tail(x), d)
         IN  [q |-> <<(hi.r * Base + Head(x)) \div d>> \o hi.q,
              r |-> (hi.r * Base + Head(x)) % d]

\* the number of bits of a machine-size n
BitLen(n) == IF n = 0 THEN 0 ELSE CHOOSE k \in 1..31 : 2 ^ (k - 1) <= n /\ (k = 31 \/ n < 2 ^ k)

\* the bits of x, lowest first, without leading zeros
BitsOf(x) ==
    LET top == CHOOSE k \in 0..Len(x) : (k = 0 \/ x[k] # 0) /\ \A j \in (k + 1)..Len(x) : x[j] = 0
    IN  IF top = 0 THEN <<>>
        ELSE [i \in 1..(LimbBits * (top - 1) + BitLen(x[top])) |->
                 (x[(i - 1) \div LimbBits + 1] \div 2 ^ ((i - 1) % LimbBits)) % 2]

\* b + 1 on the bits b
Inc(b) ==
    IF \A i \in 1..Len(b) : b[i] = 1 THEN [i \in 1..Len(b) |-> 0] \o <<1>>
    ELSE [i \in 1..Len(b) |-> IF \A j \in 1..(i - 1) : b[j] = 1 THEN 1 - b[i] ELSE b[i]]

\* round-to-nearest, ties-to-even of b * 2^e (b as bits) to a double; sticky
\* tells that the exact value lies above b * 2^e by less than 2^e
RoundBits(b, e, sticky) ==
    IF b = <<>> THEN [mant |-> <<>>, exp |-> 0]
    ELSE IF Len(b) <= DoubleBits
    THEN [mant |-> [i \in 1..(DoubleBits - Len(b)) |-> 0] \o b,
          exp |-> e - (DoubleBits - Len(b))]
    ELSE LET s == Len(b) - DoubleBits
             q == SubSeq(b, s + 1, Len(b))
             more == sticky \/ \E i \in 1..(s - 1) : b[i] = 1
             up == b[s] = 1 /\ (more \/ q[1] = 1)
             q2 == IF up THEN Inc(q) ELSE q
         IN  IF Len(q2) > DoubleBits
             THEN [mant |-> Tail(q2), exp |-> e + s + 1]
             ELSE [mant |-> q2, exp |-> e + s]

\* the significand of the float literal 1.2, 0x13333333333333, in base 2^13;
\* 1.2 is this number * 2^(1 - DoubleBits)
Mant12 == <<4915, 6553, 3276, 1638, 1>>

\* budget *= 1.2, for a budget that is the whole number n of dollars
FloatTimes12(n) == RoundBits(BitsOf(MulSmall(Mant12, n, 0)), 1 - DoubleBits, FALSE)

\* the float nearest to num/den: what the decimal text of num/den denotes
DecimalFloat(num, den) ==
    LET d == DivSmall([i \in 1..5 |-> 0] \o Limbs(num), den)
    IN  IF num = 0 THEN [mant |-> <<>>, exp |-> 0]
        ELSE RoundBits(BitsOf(d.q), 0 - 5 * LimbBits, d.r # 0)

(***************************************************************************)
(* Survey.award_bonus                                                      *)
(***************************************************************************)
\* currentPanda of one task: its rows of the filtered table whose worker is
\* in workerList
CurrentPanda(filtered, hit, workerList) ==
    SelectSeq(filtered,
              LAMBDA row : row.HITID = hit /\ row.WorkerID \in Range(workerList))

\* the keys of pandaDict in the order of their first row
DictKeys(currentPanda) ==
    LET users == ColumnList(currentPanda, Str("WorkerID"))
    IN  SelectSeqBy(users, [k \in 1..Len(users) |->
                               \A j \in 1..(k - 1) : users[j] # users[k]])

\* pandaDict[user]['AssignmentID']: to_dict keeps the last row of a label
DictAssignment(currentPanda, user) ==
    LET k == CHOOSE k \in 1..Len(currentPanda) :
                 /\ currentPanda[k].WorkerID = user
                 /\ \A j \in (k + 1)..Len(currentPanda) : currentPanda[j].WorkerID # user
    IN  currentPanda[k].AssignmentID

\* whether set_index('WorkerID') gives an index with a repeated label
DuplicateIndex(currentPanda) ==
    \E j, k \in 1..Len(currentPanda) :
        j # k /\ currentPanda[j].WorkerID = currentPanda[k].WorkerID

RECURSIVE BonusLoop(_, _, _, _, _)
\* the loop over self.HITlist from task number h on: the (user, assignment)
\* pairs it reaches, and the exception that ends it.  pandas 0.24 and later
\* raise ValueError in to_dict(orient='index') on a repeated label (strict),
\* earlier ones keep the last row
BonusLoop(filtered, hitlist, h, workerList, strict) ==
    IF h > Len(hitlist) THEN [pairs |-> <<>>, raised |-> ""]
    ELSE LET currentPanda == CurrentPanda(filtered, hitlist[h], workerList)
         IN  IF strict /\ DuplicateIndex(currentPanda)
             THEN [pairs |-> <<>>, raised |-> "ValueError"]
             ELSE LET keys == DictKeys(currentPanda)
                      here == [k \in 1..Len(keys) |->
                                  [user |-> keys[k],
                                   assignment |-> DictAssignment(currentPanda, keys[k])]]
                      rest == BonusLoop(filtered, hitlist, h + 1, workerList, strict)
                  IN  [pairs |-> here \o rest.pairs, raised |-> rest.raised]

\* award_bonus(amount, customList=..., debug=...): custom is <<list>> when
\* customList is given and <<>> when not; amount is a whole number of dollars
award_bonus(o, mkt, values, ops, order, amount, custom, debug, strict) ==
    LET f == filter_mturk_results(o, mkt, ops)
        g == get_results(f.self, values, order)
        none == [granted |-> <<>>, printed |-> <<>>]
    IN  IF f.raised # "" THEN [self |-> f.self, raised |-> f.raised] @@ none
        ELSE IF g.raised # "" THEN [self |-> g.self, raised |-> g.raised] @@ none
        ELSE IF custom = <<>> /\ "completeActual" \notin g.self.attrs
        THEN [self |-> g.self, raised |-> "AttributeError"] @@ none
        ELSE LET workerList == IF custom # <<>> THEN custom[1] ELSE g.self.completeActual
                 loop == BonusLoop(g.self.filtered_mturk_resp, g.self.HITlist, 1,
                                   workerList, strict)
             IN  [self |-> g.self,
                  raised |-> loop.raised,
                  granted |-> IF debug THEN <<>> ELSE loop.pairs,
                  printed |-> IF debug /\ loop.raised = ""
                              THEN <<FloatTimes12(amount * Len(loop.pairs))>>
                              ELSE <<>>]

(***************************************************************************)
(* The calls of the program, one action each.  A call that raises keeps    *)
(* the attributes it assigned before the exception.                        *)
(***************************************************************************)
AddConditions(conds) ==
    \E r \in {add_conditions(Self, conds)} :
        /\ Store(r.self)
        /\ last' = Call("add_conditions", <<conds>>, "None", r.raised)
        /\ UNCHANGED <<env, paging>>

GetMturkResults(hit_id, questionList) ==
    \E panda \in {get_mturk_results(market, hit_id, questionList)} :
        /\ Store([Self EXCEPT !.mturk_resp = panda, !.attrs = @ \cup {"mturk_resp"}])
        /\ last' = Call("get_mturk_results", <<hit_id, questionList>>, panda, "")
        /\ UNCHANGED <<env, paging>>

FilterMturkResults ==
    \E ops \in OpChoicesOf(Self) :
        \E r \in {filter_mturk_results(Self, market, ops)} :
            /\ Store(r.self)
            /\ last' = Call("filter_mturk_results", <<>>, "None", r.raised)
            /\ UNCHANGED <<env, paging>>

ReturnAllUsers ==
    \E ops \in OpChoicesOf(Self) :
        \E r \in {filter_mturk_results(Self, market, ops)} :
            /\ Store(r.self)
            /\ last' = Call("return_all_users", <<>>,
                            IF r.raised = "" THEN r.self.allUsers ELSE "None", r.raised)
            /\ UNCHANGED <<env, paging>>

ReturnFilteredUsers ==
    \E ops \in OpChoicesOf(Self) :
        \E r \in {filter_mturk_results(Self, market, ops)} :
            /\ Store(r.self)
            /\ last' = Call("return_filtered_users", <<>>,
                            IF r.raised = "" THEN r.self.filteredUsers ELSE "None", r.raised)
            /\ UNCHANGED <<env, paging>>

GetResults ==
    \E order \in OrdersOf(Self, sheet) :
        \E r \in {get_results(Self, sheet, order)} :
            /\ Store(r.self)
            /\ last' = Call("get_results", <<>>, r.ret, r.raised)
            /\ UNCHANGED <<env, paging>>

\* filter_mturk_results(); get_results(); return the attribute attr
ReturnAfterReconcile(op, attr) ==
    \E ops \in OpChoicesOf(Self) :
        \E f \in {filter_mturk_results(Self, market, ops)} :
            IF f.raised # ""
            THEN /\ Store(f.self)
                 /\ last' = Call(op, <<>>, "None", f.raised)
                 /\ UNCHANGED <<env, paging>>
            ELSE \E order \in OrdersOf(f.self, sheet) :
                     \E g \in {get_results(f.self, sheet, order)} :
                         LET raised == IF g.raised # "" THEN g.raised
                                       ELSE IF attr \notin g.self.attrs THEN "AttributeError"
                                       ELSE ""
                         IN  /\ Store(g.self)
                             /\ last' = Call(op, <<>>,
                                             IF raised # "" THEN "None"
                                             ELSE IF attr = "completeActual"
                                             THEN g.self.completeActual
                                             ELSE g.self.remaining,
                                             raised)
                             /\ UNCHANGED <<env, paging>>

ReturnCompleted == ReturnAfterReconcile("return_completed", "completeActual")

ReturnRemaining == ReturnAfterReconcile("return_remaining", "remaining")

\* send_reminder_emails(users, subj, msg), notify_workers raising at the
\* places in fails
SendReminderEmails(op, users, subj, msg, fails) ==
    /\ fails \subseteq 1..Len(users)
    /\ last' = [Call(op, <<users, subj, msg>>,
                     send_reminder_emails(users, subj, msg, fails), "")
                   EXCEPT !.notified = NotifyCalls(users, subj, msg, fails)]
    /\ UNCHANGED <<env, paging, HITlist, conditions, attrs, mturk_resp, filtered_mturk_resp,
                   allAssignments, allUsers, filteredAssignments, filteredUsers,
                   completeList, completeActual, remaining>>

\* a mailer whose list of users is the attribute attr
Mailer(op, attr, users, subj, msg, fails) ==
    IF attr \in attrs
    THEN SendReminderEmails(op, users, subj, msg, fails)
    ELSE /\ fails = {}
         /\ last' = Call(op, <<>>, "None", "AttributeError")
         /\ UNCHANGED <<env, paging, HITlist, conditions, attrs, mturk_resp, filtered_mturk_resp,
                        allAssignments, allUsers, filteredAssignments, filteredUsers,
                        completeList, completeActual, remaining>>

SendFirstMailer(fails) ==
    Mailer("send_first_mailer", "filteredUsers", filteredUsers,
           FirstSubject, FirstMessage, fails)

SendSecondMailer(fails) ==
    Mailer("send_second_mailer", "remaining", remaining,
           SecondSubject, SecondMessage, fails)

AwardBonus(amount, custom, debug, strict) ==
    \E ops \in OpChoicesOf(Self) :
        \E f \in {filter_mturk_results(Self, market, ops)} :
            \E order \in OrdersOf(f.self, sheet) :
                \E r \in {award_bonus(Self, market, sheet, ops, order,
                                      amount, custom, debug, strict)} :
                    /\ Store(r.self)
                    /\ last' = [Call("award_bonus", <<amount, custom, debug>>,
                                     "None", r.raised)
                                   EXCEPT !.granted = r.granted, !.printed = r.printed]
                    /\ UNCHANGED <<env, paging>>

(***************************************************************************)
(* The world outside the program.                                          *)
(***************************************************************************)
\* a worker submits an assignment to a task; MTurk lists it last, on the
\* last page or on a new one
Submit(hit, worker, answers, newPage) ==
    /\ NumAssignments(market) < MaxAssign
    /\ LET a == [WorkerId |-> worker,
                 AssignmentId |-> AssignmentIdOf(hit, Len(AssignmentsOf(market, hit)) + 1),
                 answers |-> answers]
           pages == market[hit]
       IN  market' = [market EXCEPT ![hit] =
                         IF newPage \/ pages = <<>>
                         THEN Append(pages, <<a>>)
                         ELSE [pages EXCEPT ![Len(pages)] = Append(@, a)]]
    /\ last' = NoCall
    /\ UNCHANGED <<sheet, paging, HITlist, conditions, attrs, mturk_resp, filtered_mturk_resp,
                   allAssignments, allUsers, filteredAssignments, filteredUsers,
                   completeList, completeActual, remaining>>

\* the sheet comes to hold the rows values (none when it is emptied)
SheetWrite(values) ==
    /\ sheet # values
    /\ sheet' = values
    /\ last' = NoCall
    /\ UNCHANGED <<market, paging, HITlist, conditions, attrs, mturk_resp, filtered_mturk_resp,
                   allAssignments, allUsers, filteredAssignments, filteredUsers,
                   completeList, completeActual, remaining>>

(***************************************************************************)
(* The inputs the calls are given and the worlds the program starts in.    *)
(***************************************************************************)
Cond(field, op, value) == <<field, SP, op, SP, value>>

\* condition strings: one per operator, then one naming no column, one
\* with no operator, one with two operators and one whose operator has no
\* blanks around it
GoodConds == {Cond("Q1", "==", "a"), Cond("Q2", "==", "a"), Cond("Q1", "!=", "a"),
              Cond("Q2", ">=", "b"), Cond("Q2", "<=", "a"),
              Cond("Q1", "contains", "a"), Cond("Q2", "does not contain", "a")}

OddConds == {Cond("Q3", "==", "a"), <<"Q1", SP, "a">>,
             Cond("Q1", "==", "a") \o <<SP, "!=", SP, "b">>, <<"Q1", "==", "a">>}

CondStrings == GoodConds \cup OddConds

\* the conditions the screening runs are given
ScreenConds == {Cond("Q1", "==", "a"), Cond("Q2", ">=", "b")}

QuestionLists == {<<Q1>>, <<Q2>>, <<Q1, Q2>>, <<Q2, Q1>>}

\* answer lists that answer every question
FullAnswerLists == {al \in AnswerLists : Len(al) = Len(questions)}

\* the answer lists of the aggregation runs: any question answered or not
AggAnswerLists ==
    {al \in AnswerLists : \A k \in 1..Len(al) : al[k].fields0 = Str("a")}

\* the one answer list of the runs that screen nobody out
PlainAnswerLists == {<<[qid |-> Q1, fields0 |-> Str("a")], [qid |-> Q2, fields0 |-> Str("a")]>>}

\* what respondents type into the form: ids of workers, an id of nobody, an
\* id in the wrong case
SheetEntries == {R1, R2, Str("R3"), Str("r1")}

\* the sheets: no rows at all, or the header and up to n entries
Sheets(n) == {<<>>} \cup {<<srvy_q_text>> \o es : es \in SeqsUpTo(SheetEntries, n)}

\* whole-dollar bonus amounts
Amounts == {1, 2}

\* customList of award_bonus: <<>> when not given, else <<the list>>
CustomLists == {<<>>, <<<<R2, R1>>>>, <<<<Str("R3")>>>>}

WithIds(hit, subs) ==
    [k \in 1..Len(subs) |->
        [WorkerId |-> subs[k].WorkerId,
         AssignmentId |-> AssignmentIdOf(hit, k),
         answers |-> subs[k].answers]]

RECURSIVE Pagings(_)
\* the ways to cut a list of assignments into non-empty pages
Pagings(s) ==
    IF s = <<>> THEN {<<>>}
    ELSE UNION {{<<SubSeq(s, 1, k)>> \o rest : rest \in Pagings(SubSeq(s, k + 1, Len(s)))} :
                   k \in 1..Len(s)}

PagesOf(s, paged) == IF paged THEN Pagings(s) ELSE {IF s = <<>> THEN <<>> ELSE <<s>>}

\* the marketplaces holding at most n assignments in all, of the workers ws
\* with the answer lists als
Markets(ws, als, n, paged) ==
    LET Sub == [WorkerId : ws, answers : als]
    IN  UNION {UNION {{(T1 :> p1 @@ T2 :> p2) :
                          p1 \in PagesOf(WithIds(T1, s1), paged),
                          p2 \in PagesOf(WithIds(T2, s2), paged)} :
                      s1 \in [1..k[1] -> Sub], s2 \in [1..k[2] -> Sub]} :
                  k \in {k \in (0..n) \X (0..n) : k[1] + k[2] <= n}}

EmptyMarket == (T1 :> <<>> @@ T2 :> <<>>)

\* the object has the attribute values of the record o
Holds(o) ==
    /\ HITlist = o.HITlist
    /\ conditions = o.conditions
    /\ attrs = o.attrs
    /\ mturk_resp = o.mturk_resp
    /\ filtered_mturk_resp = o.filtered_mturk_resp
    /\ allAssignments = o.allAssignments
    /\ allUsers = o.allUsers
    /\ filteredAssignments = o.filteredAssignments
    /\ filteredUsers = o.filteredUsers
    /\ completeList = o.completeList
    /\ completeActual = o.completeActual
    /\ remaining = o.remaining

\* the object after the constructor and add_conditions(*conds)
Registered(hitlist, conds) == add_conditions(NewObject(hitlist), conds).self

(***************************************************************************)
(* The program as a whole: a new object in an empty world, any call and    *)
(* any change of the world.                                                *)
(***************************************************************************)
Init ==
    /\ market = EmptyMarket
    /\ sheet = <<>>
    /\ \E hitlist \in {<<T1>>, <<T1, T2>>} : Holds(NewObject(hitlist))
    /\ last = NoCall
    /\ paging = NoLoop

Next ==
    \/ \E conds \in SeqsUpTo(CondStrings, MaxConds) : AddConditions(conds)
    \/ \E hit \in HITs, ql \in QuestionLists : GetMturkResults(hit, ql)
    \/ FilterMturkResults
    \/ ReturnAllUsers
    \/ ReturnFilteredUsers
    \/ GetResults
    \/ ReturnCompleted
    \/ ReturnRemaining
    \/ \E users \in SeqsUpTo(Workers, MaxUsers), fails \in SUBSET (1..MaxUsers) :
           SendReminderEmails("send_reminder_emails", users, Str("subject"), Str("body "), fails)
    \/ \E fails \in SUBSET (1..MaxSurvey) : SendFirstMailer(fails)
    \/ \E fails \in SUBSET (1..MaxSurvey) : SendSecondMailer(fails)
    \/ \E amount \in Amounts, custom \in CustomLists, debug, strict \in BOOLEAN :
           AwardBonus(amount, custom, debug, strict)
    \/ \E hit \in HITs, worker \in Workers, answers \in AnswerLists, newPage \in BOOLEAN :
           Submit(hit, worker, answers, newPage)
    \/ \E values \in Sheets(MaxSheet) : SheetWrite(values)

Spec == Init /\ [][Next]_vars

(***************************************************************************)
(* Aggregation: get_mturk_results on any marketplace.                      *)
(***************************************************************************)
InitAggregate ==
    /\ market \in Markets(Workers, AggAnswerLists, MaxAssign, TRUE)
    /\ sheet = <<>>
    /\ Holds(NewObject(<<T1, T2>>))
    /\ last = NoCall
    /\ paging = NoLoop

NextAggregate == \E hit \in HITs, ql \in QuestionLists : GetMturkResults(hit, ql)

SpecAggregate == InitAggregate /\ [][NextAggregate]_vars

HasAnswer(assignment, q) ==
    \E k \in 1..Len(assignment.answers) : assignment.answers[k].qid = q

RowOf(row, hit, assignment) ==
    /\ row.HITID = hit
    /\ row.WorkerID = assignment.WorkerId
    /\ row.AssignmentID = assignment.AssignmentId

\* C10: the table get_mturk_results returns has a row for a submission of
\* the task if and only if the submission answers every requested question,
\* every row is a submission of the task, and no key is in two rows
C10_InnerJoin ==
    last.op = "get_mturk_results" =>
        LET hit == last.args[1]
            ql == last.args[2]
            table == last.ret
            submitted == AssignmentsOf(market, hit)
        IN  /\ \A k \in 1..Len(submitted) :
                   (\E i \in 1..Len(table) : RowOf(table[i], hit, submitted[k]))
                       <=> \A q \in Range(ql) : HasAnswer(submitted[k], q)
            /\ \A i \in 1..Len(table) :
                   \E k \in 1..Len(submitted) : RowOf(table[i], hit, submitted[k])
            /\ \A i, j \in 1..Len(table) : i # j => ~SameKey(table[i], table[j])

\* R1 answers Q1 and Q2, R2 only Q1: one row, for R1
C10_Scenario ==
    /\ last.op = "get_mturk_results"
    /\ last.args = <<T1, <<Q1, Q2>>>>
    /\ LET submitted == AssignmentsOf(market, T1)
       IN  /\ Len(submitted) = 2
           /\ submitted[1].WorkerId = R1
           /\ HasAnswer(submitted[1], Q1) /\ HasAnswer(submitted[1], Q2)
           /\ submitted[2].WorkerId = R2
           /\ HasAnswer(submitted[2], Q1) /\ ~HasAnswer(submitted[2], Q2)
    /\ Len(last.ret) = 1
    /\ last.ret[1].WorkerID = R1

(***************************************************************************)
(* Registration: add_conditions with any condition strings.                *)
(***************************************************************************)
InitConditions ==
    /\ market = EmptyMarket
    /\ sheet = <<>>
    /\ Holds(NewObject(<<T1, T2>>))
    /\ last = NoCall
    /\ paging = NoLoop

\* a string of one token, one of the longest token, one of none, one of two
RegistrationConds ==
    {Cond("Q1", "==", "a"), Cond("Q2", "does not contain", "a"), <<"Q1", SP, "a">>,
     Cond("Q1", "==", "a") \o <<SP, "!=", SP, "b">>}

NextConditions ==
    \E conds \in SeqsUpTo(RegistrationConds, MaxConds) : AddConditions(conds)

SpecConditions == InitConditions /\ [][NextConditions]_vars

\* the number of keys of cond_mapping found in a condition string
Tokens(cond) == Cardinality({k \in 1..Len(OpKeys) : Contains(cond, OpKeys[k])})

\* the object keeps the condition list it had
ConditionsKept ==
    /\ conditions' = conditions
    /\ ("conditions" \in attrs') = ("conditions" \in attrs)

\* C8 as claimed: add_conditions raises, and keeps the registered list, when
\* some string holds no operator token or more than one; else it registers
C8_RejectsZeroOrMany ==
    [][last'.op = "add_conditions" =>
          LET conds == last'.args[1]
          IN  IF \E k \in 1..Len(conds) : Tokens(conds[k]) # 1
              THEN last'.raised = "ValueError" /\ ConditionsKept
              ELSE last'.raised = "" /\ conditions' = conds /\ "conditions" \in attrs']_vars

\* C8 as amended: add_conditions raises, and keeps the registered list, when
\* some string holds no operator token; else it registers the strings, those
\* with more than one token too
C8_RejectsZero ==
    [][last'.op = "add_conditions" =>
          LET conds == last'.args[1]
          IN  IF \E k \in 1..Len(conds) : Tokens(conds[k]) = 0
              THEN last'.raised = "ValueError" /\ ConditionsKept
              ELSE last'.raised = "" /\ conditions' = conds /\ "conditions" \in attrs']_vars

\* a list was registered, then a call with a token-less string raised and
\* left it, and a string of two tokens is in the registered list
C8_Rejected ==
    /\ last.op = "add_conditions"
    /\ last.raised = "ValueError"
    /\ \E k \in 1..Len(last.args[1]) : Tokens(last.args[1][k]) = 0
    /\ "conditions" \in attrs
    /\ \E k \in 1..Len(conditions) : Tokens(conditions[k]) = 2

(***************************************************************************)
(* Screening: add_conditions and filter_mturk_results on marketplaces      *)
(* whose respondents answered every question.                              *)
(***************************************************************************)
InitScreen ==
    /\ market \in Markets(Workers, FullAnswerLists, MaxAssign, FALSE)
    /\ sheet = <<>>
    /\ \E hitlist \in {<<T1>>, <<T1, T2>>} : Holds(NewObject(hitlist))
    /\ last = NoCall
    /\ paging = NoLoop

NextScreen ==
    \/ \E conds \in SeqsUpTo(ScreenConds, MaxConds) : AddConditions(conds)
    \/ FilterMturkResults
    \/ ReturnAllUsers
    \/ ReturnFilteredUsers

SpecScreen == InitScreen /\ [][NextScreen]_vars

Screened == last.op \in {"filter_mturk_results", "return_all_users", "return_filtered_users"}

\* a row satisfies a condition string of one operator token
Satisfies(row, cond) ==
    LET op == CHOOSE f \in Range(OpKeys) : Contains(cond, f)
        var == Split(cond, <<SP>> \o op \o <<SP>>)
    IN  CondHolds(op, Cell(row, var[1]), var[2])

\* the rows of the tasks of the HIT list, task after task
ConcatenatedRows ==
    Flatten([k \in 1..Len(HITlist) |->
                get_mturk_results(market, HITlist[k], questions)])

SameRow(frow, row) == SameKey(frow, row) /\ frow.ans = row.ans

\* C1: after a filter with a non-empty list of conditions, the filtered
\* table holds exactly the rows of the concatenated table that satisfy
\* every condition, in their order
C1_FilterIsAnd ==
    (Screened /\ last.raised = "" /\ conditions # <<>>) =>
        LET rows == ConcatenatedRows
            wanted == SelectSeq(rows, LAMBDA row :
                          \A k \in 1..Len(conditions) : Satisfies(row, conditions[k]))
        IN  /\ Len(filtered_mturk_resp) = Len(wanted)
            /\ \A i \in 1..Len(wanted) : SameRow(filtered_mturk_resp[i], wanted[i])

\* C2: after a filter, filtering by any permutation of the condition list
\* gives the same set of qualified respondents
C2_OrderFree ==
    (Screened /\ last.raised = "" /\ conditions # <<>>) =>
        \A p \in Perms(1..Len(conditions)) :
            LET permuted == [k \in 1..Len(conditions) |-> conditions[p[k]]]
                other == FilterTable(ValidResults(market, HITlist), permuted,
                                     FirstOps(permuted))
            IN  /\ other.raised = ""
                /\ Range(ColumnList(other.table, Str("WorkerID"))) = Range(filteredUsers)

(***************************************************************************)
(* Reconciliation: filter_mturk_results and get_results on a sheet that    *)
(* does not change, no condition screening anybody out.                    *)
(***************************************************************************)
InitReconcile ==
    /\ market \in Markets(Workers, PlainAnswerLists, MaxSurvey, FALSE)
    /\ sheet \in Sheets(MaxSheet)
    /\ Holds(Registered(<<T1, T2>>, <<>>))
    /\ last = NoCall
    /\ paging = NoLoop

NextReconcile ==
    \/ FilterMturkResults
    \/ GetResults
    \/ ReturnCompleted
    \/ ReturnRemaining

SpecReconcile == InitReconcile /\ [][NextReconcile]_vars

\* get_results has just read a sheet with rows and set its lists
Reconciled ==
    /\ last.op \in {"get_results", "return_completed", "return_remaining"}
    /\ last.raised = ""
    /\ sheet # <<>>

\* user is an entry of the sheet below the header, letter for letter
InSheet(user) == \E k \in 2..Len(sheet) : sheet[k] = user

\* C3: after get_results on a sheet with rows, completeActual lists exactly
\* the qualified users that are an entry of the sheet, each once, and so no
\* entry of the sheet that is not a qualified user
C3_CompletedIsIntersection ==
    Reconciled =>
        /\ \A u \in Range(filteredUsers) : InSheet(u) => u \in Range(completeActual)
        /\ \A u \in Range(completeActual) : u \in Range(filteredUsers) /\ InSheet(u)
        /\ \A i, j \in 1..Len(completeActual) : i # j => completeActual[i] # completeActual[j]

\* the sheet lists R1 and R3, R1 alone is qualified: completed is R1
C3_Scenario ==
    /\ Reconciled
    /\ Tail(sheet) = <<R1, Str("R3")>>
    /\ Range(filteredUsers) = {R1}
    /\ completeActual = <<R1>>
    /\ remaining = <<>>

\* C4: after a reconciliation on a sheet with rows, no user is in both
\* remaining and completeActual, and every qualified user is in one of them:
\* remaining is filteredUsers without the users of completeActual
C4_Partition ==
    Reconciled =>
        /\ Range(remaining) \cap Range(completeActual) = {}
        /\ Range(remaining) \cup Range(completeActual) = Range(filteredUsers)
        /\ remaining = SelectSeqBy(filteredUsers,
                                   [k \in 1..Len(filteredUsers) |->
                                       \A i \in 1..Len(completeActual) :
                                           completeActual[i] # filteredUsers[k]])

\* R1 and R2 are qualified, the sheet lists R2 alone: R1 remains
C4_Scenario ==
    /\ Reconciled
    /\ Range(filteredUsers) = {R1, R2}
    /\ Range(Tail(sheet)) = {R2}
    /\ completeActual = <<R2>>
    /\ Range(remaining) = {R1}

(***************************************************************************)
(* Mailing: the two mailers and send_reminder_emails, notify_workers       *)
(* failing for any of the users.                                           *)
(***************************************************************************)
\* the sheet of the mailing runs: R1 has completed
MailingSheet == <<srvy_q_text, R1>>

InitNotify ==
    /\ market \in {mkt \in Markets(Workers, PlainAnswerLists, MaxSurvey, FALSE) : mkt[T2] = <<>>}
    /\ sheet = MailingSheet
    /\ Holds(Registered(<<T1, T2>>, <<>>))
    /\ last = NoCall
    /\ paging = NoLoop

NextNotify ==
    \/ FilterMturkResults
    \/ GetResults
    \/ \E users \in SeqsUpTo(Workers, MaxUsers), fails \in SUBSET (1..MaxUsers) :
           SendReminderEmails("send_reminder_emails", users, Str("subject"), Str("body "), fails)
    \/ \E fails \in SUBSET (1..MaxSurvey) : SendFirstMailer(fails)
    \/ \E fails \in SUBSET (1..MaxSurvey) : SendSecondMailer(fails)

SpecNotify == InitNotify /\ [][NextNotify]_vars

\* a batch of notifications has just returned
Mailed ==
    /\ last.op \in {"send_reminder_emails", "send_first_mailer", "send_second_mailer"}
    /\ last.raised = ""

\* the number of entries of a result list telling a failure
Failures(result) == Cardinality({k \in 1..Len(result) : ~result[k].sent})

\* C7: a batch over N users makes one notify_workers call per entry of the
\* list, in the order of the list, each with the template followed by the
\* id of the user, whichever of the calls raise; it returns N entries, the
\* k-th a failure entry naming the k-th user if the k-th call raised and a
\* success entry of the k-th user if not; send_first_mailer does so for
\* filteredUsers
C7_OneResultPerUser ==
    Mailed =>
        LET users == last.args[1]
            msg == last.args[3]
            N == Len(users)
            K == Cardinality({k \in 1..Len(last.notified) : last.notified[k].raised})
        IN  /\ Len(last.notified) = N
            /\ \A k \in 1..N :
                   /\ last.notified[k].user = users[k]
                   /\ last.notified[k].subj = last.args[2]
                   /\ last.notified[k].body = msg \o users[k]
            /\ Len(last.ret) = N
            /\ Failures(last.ret) = K
            /\ \A k \in 1..N :
                   IF last.notified[k].raised
                   THEN /\ ~last.ret[k].sent
                        /\ last.ret[k].text = Str("Could not email user: ") \o users[k]
                   ELSE /\ last.ret[k].sent
                        /\ last.ret[k].user = users[k]
            /\ last.op = "send_first_mailer" =>
                   users = filteredUsers /\ msg = FirstMessage /\ last.args[2] = FirstSubject

\* send_first_mailer to three users, the call for the second one raising:
\* three entries, the third a success
C7_Scenario ==
    /\ Mailed
    /\ last.op = "send_first_mailer"
    /\ Len(filteredUsers) = 3
    /\ [k \in 1..3 |-> last.notified[k].raised] = <<FALSE, TRUE, FALSE>>
    /\ Len(last.ret) = 3
    /\ ~last.ret[2].sent
    /\ last.ret[3].sent

(***************************************************************************)
(* Bonuses: award_bonus, live and dry, on sheets with rows, a worker       *)
(* having any number of submissions under a task.                          *)
(***************************************************************************)
\* the sheets of the bonus runs: nobody, R1, or R1 and R2 have completed
BonusSheets == {<<srvy_q_text>>, <<srvy_q_text, R1>>, <<srvy_q_text, R1, R2>>}

InitBonus ==
    /\ market \in Markets(Workers, PlainAnswerLists, MaxSurvey, FALSE)
    /\ sheet \in BonusSheets
    /\ Holds(Registered(<<T1, T2>>, <<>>))
    /\ last = NoCall
    /\ paging = NoLoop

NextBonus ==
    \E amount \in Amounts, custom \in CustomLists, debug, strict \in BOOLEAN :
        AwardBonus(amount, custom, debug, strict)

SpecBonus == InitBonus /\ [][NextBonus]_vars

\* the list of workers the last award_bonus was to pay
TargetList == IF last.args[2] # <<>> THEN last.args[2][1] ELSE completeActual

\* the rows of the filtered table of a task and a worker
RowsOfPair(h, u) ==
    {i \in 1..Len(filtered_mturk_resp) :
        filtered_mturk_resp[i].HITID = h /\ filtered_mturk_resp[i].WorkerID = u}

\* the (task, worker) pairs to pay: the task is in the HIT list, the worker
\* is in the target list and has a row of the task in the filtered table
TargetPairs ==
    {p \in Range(HITlist) \X Range(TargetList) : RowsOfPair(p[1], p[2]) # {}}

\* the id of the last submission of the pair in the filtered table
LatestAssignment(p) ==
    LET rows == RowsOfPair(p[1], p[2])
    IN  filtered_mturk_resp[CHOOSE i \in rows : \A j \in rows : j <= i].AssignmentID

\* C5: a dry run of award_bonus that returns makes no grant_bonus call and
\* prints the budget amount x 1.2 x the number of pairs to pay, the number
\* that the decimal amount x pairs x 12 / 10 denotes (3.6 for three pairs
\* and amount 1)
C5_DryRunBudget ==
    (last.op = "award_bonus" /\ last.args[3] /\ last.raised = "") =>
        /\ last.granted = <<>>
        /\ last.printed = <<DecimalFloat(12 * last.args[1] * Cardinality(TargetPairs), 10)>>

\* C6: a live award_bonus returns having made one grant_bonus call for each
\* pair to pay and no other call, the call of a pair being for its worker
\* and the id of the worker's last submission under the task
C6_OnePaymentPerPair ==
    (last.op = "award_bonus" /\ ~last.args[3]) =>
        /\ last.raised = ""
        /\ Len(last.granted) = Cardinality(TargetPairs)
        /\ \A p \in TargetPairs :
               \E k \in 1..Len(last.granted) :
                   /\ last.granted[k].user = p[2]
                   /\ last.granted[k].assignment = LatestAssignment(p)

(***************************************************************************)
(* Accessors in a world that changes: workers submit, the sheet is         *)
(* rewritten or emptied, between calls of return_completed and             *)
(* return_remaining.                                                       *)
(***************************************************************************)
InitAccess ==
    /\ market = EmptyMarket
    /\ sheet = <<>>
    /\ Holds(Registered(<<T1, T2>>, <<>>))
    /\ last = NoCall
    /\ paging = NoLoop

NextAccess ==
    \/ ReturnCompleted
    \/ ReturnRemaining
    \/ \E hit \in HITs, worker \in Workers, answers \in PlainAnswerLists :
           Submit(hit, worker, answers, FALSE)
    \/ \E values \in Sheets(1) : SheetWrite(values)

SpecAccess == InitAccess /\ [][NextAccess]_vars

\* C9: what return_completed returns is the qualified users that are an
\* entry of the sheet as it is at the call, and what return_remaining
\* returns is the qualified users that are not, the sheet having rows or not
C9_Recomputed ==
    /\ (last.op = "return_completed" /\ last.raised = "") =>
           Range(last.ret) = {u \in Range(filteredUsers) : InSheet(u)}
    /\ (last.op = "return_remaining" /\ last.raised = "") =>
           last.ret = SelectSeqBy(filteredUsers,
                                  [k \in 1..Len(filteredUsers) |-> ~InSheet(filteredUsers[k])])

(***************************************************************************)
(* Paging: the while-loop of helper, one call of get_assignments at a      *)
(* step, workers submitting while it runs.  The marketplace may serve an   *)
(* empty page before a page that is not.                                   *)
(***************************************************************************)
\* result, assignments = [], [] and i = 1: the locals before the loop
LoopStart(hit_id) ==
    [pc |-> "request", hit_id |-> hit_id, i |-> 1, assignments |-> <<>>,
     requested |-> <<>>, returned |-> <<>>]

\* a loop body that breaks after the first page it collects
LoopBodyOnePage(frame, assignments_subset) ==
    IF Len(assignments_subset) > 0
    THEN [frame EXCEPT !.assignments = @ \o assignments_subset, !.i = @ + 1, !.pc = "done"]
    ELSE [frame EXCEPT !.pc = "done"]

\* the body of the while-loop on the page get_assignments returned:
\* collect it and go on to the next page, or break on an empty page
LoopBody(frame, assignments_subset) ==
    IF Len(assignments_subset) > 0
    THEN [frame EXCEPT !.assignments = @ \o assignments_subset, !.i = @ + 1]
    ELSE [frame EXCEPT !.pc = "done"]

\* helper is entered for a task
HelperStart(hit_id) ==
    /\ paging.pc # "request"
    /\ paging' = LoopStart(hit_id)
    /\ UNCHANGED <<env, last, HITlist, conditions, attrs, mturk_resp, filtered_mturk_resp,
                   allAssignments, allUsers, filteredAssignments, filteredUsers,
                   completeList, completeActual, remaining>>

\* one pass of the loop: page i is requested, then collected or the loop left
HelperRequest ==
    /\ paging.pc = "request"
    /\ \E assignments_subset \in {GetAssignments(market, paging.hit_id, PageSize, paging.i)} :
           paging' = [LoopBody(paging, assignments_subset) EXCEPT
                         !.requested = Append(@, paging.i),
                         !.returned = Append(@, assignments_subset)]
    /\ UNCHANGED <<env, last, HITlist, conditions, attrs, mturk_resp, filtered_mturk_resp,
                   allAssignments, allUsers, filteredAssignments, filteredUsers,
                   completeList, completeActual, remaining>>

RECURSIVE SumSeq(_)
SumSeq(s) == IF s = <<>> THEN 0 ELSE Head(s) + SumSeq(Tail(s))

\* the sizes of the pages of a task holding at most n assignments
PageSizes(n) == {ls \in SeqsUpTo(0..n, MaxPages) : SumSeq(ls) <= n}

RECURSIVE CutInto(_, _)
\* the list s cut into pages of the sizes ls
CutInto(s, ls) ==
    IF ls = <<>> THEN <<>>
    ELSE <<SubSeq(s, 1, Head(ls))>> \o CutInto(SubSeq(s, Head(ls) + 1, Len(s)), Tail(ls))

\* the pages of a task whose assignments are all of worker R1
ServedPages(hit, ls) ==
    CutInto(WithIds(hit, [k \in 1..SumSeq(ls) |->
                             [WorkerId |-> R1,
                              answers |-> CHOOSE al \in PlainAnswerLists : TRUE]]),
            ls)

\* the marketplaces of the paging runs
PagedMarkets ==
    {(T1 :> ServedPages(T1, ls[1]) @@ T2 :> ServedPages(T2, ls[2])) :
        ls \in {ls \in PageSizes(MaxAssign) \X PageSizes(MaxAssign) :
                   SumSeq(ls[1]) + SumSeq(ls[2]) <= MaxAssign}}

InitPaging ==
    /\ market \in PagedMarkets
    /\ sheet = <<>>
    /\ Holds(NewObject(<<T1, T2>>))
    /\ last = NoCall
    /\ paging = NoLoop

NextPaging ==
    \/ \E hit \in HITs : HelperStart(hit)
    \/ HelperRequest
    \/ \E hit \in HITs, answers \in PlainAnswerLists, newPage \in BOOLEAN :
           Submit(hit, R1, answers, newPage)

\* the interpreter goes on with the loop it is in
SpecPaging == InitPaging /\ [][NextPaging]_vars /\ WF_vars(HelperRequest)

\* the pages were requested by number 1, 2, 3, ...; every page but the last
\* was not empty; the loop has ended if and only if the last page it was
\* given is empty; what it collected is the pages it was given, in order,
\* which is all the marketplace holds before its first empty page when the
\* marketplace still serves those pages
PagesInOrder ==
    LET n == Len(paging.requested)
    IN  /\ paging.requested = [k \in 1..n |-> k]
        /\ Len(paging.returned) = n
        /\ \A k \in 1..(n - 1) : paging.returned[k] # <<>>
        /\ (paging.pc = "done") <=> (n > 0 /\ paging.returned[n] = <<>>)
        /\ paging.pc = "request" => paging.i = n + 1
        /\ paging.assignments = Flatten(paging.returned)
        /\ (\A k \in 1..n :
                paging.returned[k] = GetAssignments(market, paging.hit_id, PageSize, k))
               => (paging.pc = "done" => paging.assignments = FetchPages(market, paging.hit_id, 1))

\* C11: the loop of helper requests the pages 1, 2, 3, ... in order, never
\* leaves on a page that is not empty, requests no page after the first
\* empty one, has then collected the assignments of all the pages before it
\* in page order, and a loop that is running comes to its end
C11_StopsAtFirstEmptyPage ==
    /\ [](paging.pc # "" => PagesInOrder)
    /\ (paging.pc = "request") ~> (paging.pc = "done")

\* two pages of one assignment each, then the empty page: three requests,
\* both assignments collected
C11_Scenario ==
    /\ paging.pc = "done"
    /\ paging.requested = <<1, 2, 3>>
    /\ Len(paging.returned[1]) = 1 /\ Len(paging.returned[2]) = 1
    /\ paging.returned[3] = <<>>
    /\ paging.assignments = paging.returned[1] \o paging.returned[2]

====
